---- MODULE Spec2Model ----
(***************************************************************************)
(* Model of the document conversion core of Quotation-Generator            *)
(* (src/convert_file_md.py) and of its chat front end (src/app.py).  Text  *)
(* is a sequence of one-character strings; indices follow Python           *)
(* (0-based), so Python's s[i] is s[i + 1] here.  Every converter is one   *)
(* call: pc goes from "call" to "done".  Every run of the Streamlit script *)
(* is one step of the front end.                                           *)
(***************************************************************************)
EXTENDS Integers, Sequences, FiniteSets, TLC

VARIABLES
    pc,                  \* "call" before the function runs, "done" after it returned
    call,                \* the function called and the path it selects a format from
    md_content,          \* the text of the file at md_path (txt_path for convert_txt_to_md)
    body,                \* the blocks of the DOCX file at docx_path, in document order
    pages,               \* the pages of the PDF file at pdf_path, in order
    fault,               \* the step of the call that raised ([step |-> "none"]: none did)
    called,              \* the functions of the module entered by the call, in order
    io,                  \* the file operations the call started, in order
    cleaned_md_content,  \* convert_md_to_pdf: the text handed to markdown.markdown
    html_for_fitz,       \* convert_md_to_pdf: what page.insert_htmlbox lays out
    returned_value,      \* convert_md_to_pdf: what page.insert_htmlbox returned
    printed,             \* the messages printed by the call, in order
    doc,                 \* the fitz document of the call ("none", "open", "closed")
    saved,               \* whether doc.save(output_path) completed
    written,             \* the text written to the output path
    side_files,          \* convert_pdf_to_md: the image files saved, in order
    returned,            \* the value returned to the caller
    raised,              \* whether an exception left the call
    session_state,       \* app.py: st.session_state, a value for every key
    uploaded_file,       \* app.py: the file selected in each chat's uploader
    tmp_files,           \* app.py: the temporary files that exist
    script,              \* app.py: "idle", or "rerun" when st.rerun() asked for a run
    ran,                 \* app.py: what the last run of the script did in each chat
    gemini_api_contents  \* app.py: the contents of the last generate_content call

\* What a call is given.
inputs == << call, md_content, body, pages >>

\* What a converter produces.
outputs == << io, cleaned_md_content, html_for_fitz, returned_value, printed, doc,
              saved, written, side_files, returned, raised >>

\* The state of the chat front end.
app == << session_state, uploaded_file, tmp_files, script, ran, gemini_api_contents >>

vars == << pc, fault, called, inputs, outputs, app >>

----------------------------------------------------------------------------
(* Bounds *)

\* An input text is the concatenation of at most MaxChunks chunks.
MaxChunks == 4

\* A DOCX body holds at most MaxBlocks blocks.
MaxBlocks == 3

\* A table on its own holds at most MaxRows rows of at most MaxCols cells.
MaxRows == 2

MaxCols == 2

\* A PDF holds at most MaxPages pages of at most MaxImages images each.
MaxPages == 2

MaxImages == 2

\* A path is the concatenation of at most MaxPathChunks chunks.
MaxPathChunks == 3

\* The user acts while the histories hold fewer than MaxMessages messages.
MaxMessages == 4

----------------------------------------------------------------------------
(* Python str operations *)

None == << >>

Whitespace == { " ", "\n", "\t" }

IsSpace(c) == c \in Whitespace

Min(S) == CHOOSE x \in S : \A y \in S : x <= y

Max(S) == CHOOSE x \in S : \A y \in S : x >= y

\* s[a:b] for 0 <= a, b <= len(s)
Slice(s, a, b) == IF a >= b THEN << >> ELSE SubSeq(s, a + 1, b)

\* s[i:].startswith(sub)
MatchAt(s, sub, i) ==
    /\ i >= 0
    /\ i + Len(sub) <= Len(s)
    /\ SubSeq(s, i + 1, i + Len(sub)) = sub

StartsWith(s, sub) == MatchAt(s, sub, 0)

EndsWith(s, sub) == MatchAt(s, sub, Len(s) - Len(sub))

RECURSIVE FindFrom(_, _, _)
FindFrom(s, sub, i) ==
    IF i + Len(sub) > Len(s) THEN -1
    ELSE IF MatchAt(s, sub, i) THEN i
    ELSE FindFrom(s, sub, i + 1)

\* s.find(sub)
Find(s, sub) == FindFrom(s, sub, 0)

RECURSIVE RFindFrom(_, _, _, _)
RFindFrom(s, sub, start, i) ==
    IF i < start THEN -1
    ELSE IF MatchAt(s, sub, i) THEN i
    ELSE RFindFrom(s, sub, start, i - 1)

\* s.rfind(sub, start)
RFind(s, sub, start) == RFindFrom(s, sub, start, Len(s) - Len(sub))

RECURSIVE LStrip(_)
LStrip(s) == IF s # << >> /\ IsSpace(Head(s)) THEN LStrip(Tail(s)) ELSE s

RECURSIVE RStrip(_)
RStrip(s) ==
    IF s # << >> /\ IsSpace(s[Len(s)]) THEN RStrip(SubSeq(s, 1, Len(s) - 1)) ELSE s

\* s.strip()
Strip(s) == RStrip(LStrip(s))

RECURSIVE SplitAcc(_, _, _)
SplitAcc(s, sep, cur) ==
    IF s = << >> THEN << cur >>
    ELSE IF Head(s) = sep THEN << cur >> \o SplitAcc(Tail(s), sep, << >>)
    ELSE SplitAcc(Tail(s), sep, Append(cur, Head(s)))

\* s.split(sep) for a one-character sep
Split(s, sep) == SplitAcc(s, sep, << >>)

RECURSIVE Join(_, _)
\* sep.join(lines)
Join(lines, sep) ==
    IF lines = << >> THEN << >>
    ELSE IF Len(lines) = 1 THEN lines[1]
    ELSE lines[1] \o sep \o Join(Tail(lines), sep)

RECURSIVE Concat(_)
\* "".join(parts)
Concat(parts) == IF parts = << >> THEN << >> ELSE Head(parts) \o Concat(Tail(parts))

----------------------------------------------------------------------------
(* app.py: the session of the chat front end when the script first ran *)

\* Python's None as a value of the session.
NoValue == [kind |-> "none"]

\* A text as a value of the session.
Text(s) == [kind |-> "str", value |-> s]

\* The chats main() runs, in order.
doc_type_names == << "Quotation", "Bill" >>

DocTypes == { doc_type_names[i] : i \in 1..Len(doc_type_names) }

\* doc_type_name.lower()
LowerName(doc_type_name) == IF doc_type_name = "Quotation" THEN "quotation" ELSE "bill"

\* One history under one key for every document type.
SharedMessagesKey(doc_type) == << "_messages" >>

\* f"{doc_type_name}_messages"
MessagesKey(doc_type) == << doc_type, "_messages" >>

\* f"current_{doc_type_name.lower()}_md"
CurrentMdKey(doc_type_name) == << "current_", LowerName(doc_type_name), "_md" >>

\* f"{doc_type_name}_uploaded_file_info"
UploadedFileInfoKey(doc_type_name) == << doc_type_name, "_uploaded_file_info" >>

\* f"{doc_type_name}_last_uploaded_filename"
LastUploadedFilenameKey(doc_type_name) == << doc_type_name, "_last_uploaded_filename" >>

SessionKeys ==
    UNION { { MessagesKey(t), CurrentMdKey(t), UploadedFileInfoKey(t),
              LastUploadedFilenameKey(t) } : t \in DocTypes }

\* What a chat's run has done when it has done nothing.
NothingRan == [registered |-> FALSE, download |-> "none", chat |-> "none"]

\* The session after the first run of the script: every key holds its
\* initial value, no file is selected, no temporary file exists.
AppStarted ==
    /\ session_state =
           [k \in SessionKeys |->
               IF \E t \in DocTypes : k = MessagesKey(t) THEN << >> ELSE NoValue]
    /\ uploaded_file = [t \in DocTypes |-> NoValue]
    /\ tmp_files = { }
    /\ script = "idle"
    /\ ran = [t \in DocTypes |-> NothingRan]
    /\ gemini_api_contents = << >>

----------------------------------------------------------------------------
(* convert_md_to_pdf: the fence-stripping step *)

\* The backtick character (U+0060), which a TLA+ string cannot hold.
BT == "bt"

FENCE == << BT, BT, BT >>

MARKDOWN_FENCE == FENCE \o << "m", "a", "r", "k", "d", "o", "w", "n" >>

block_start_variants == << MARKDOWN_FENCE, FENCE >>

\* The test of one marker in the loop: its first occurrence, at 0 or after whitespace.
MarkerSelected(md, marker) ==
    LET idx == Find(md, marker)
    IN  /\ idx # -1
        /\ (idx = 0 \/ IsSpace(md[idx]))

RECURSIVE StartMarkerFrom(_, _)
StartMarkerFrom(md, k) ==
    IF k > Len(block_start_variants)
    THEN [actual_start_marker |-> None, start_index |-> -1]
    ELSE LET marker == block_start_variants[k]
         IN  IF MarkerSelected(md, marker)
             THEN [actual_start_marker |-> marker,
                   start_index |-> Find(md, marker) + Len(marker)]
             ELSE StartMarkerFrom(md, k + 1)

\* Mutant: the block starts at the marker instead of after it.
StartMarkerAtMarker(md) ==
    LET m == StartMarkerFrom(md, 1)
    IN  [m EXCEPT !.start_index = @ - Len(m.actual_start_marker)]

\* for marker in block_start_variants: ... break
StartMarker(md) == StartMarkerFrom(md, 1)

\* Mutant: the first line is kept.
PopFirstKept(lines) == lines

\* lines.pop(0) when lines is not empty
PopFirst(lines) == IF lines # << >> THEN Tail(lines) ELSE lines

\* lines.pop(-1) when the last line, stripped, is the fence
PopLastFence(lines) ==
    IF lines # << >> /\ Strip(lines[Len(lines)]) = FENCE
    THEN SubSeq(lines, 1, Len(lines) - 1)
    ELSE lines

\* Mutant: a text the rule does not apply to is returned trimmed.
SimpleStripTrimmed(md, marker) ==
    LET stripped_md == Strip(md)
    IN  IF StartsWith(stripped_md, marker) /\ EndsWith(stripped_md, FENCE)
        THEN Join(PopLastFence(PopFirst(Split(stripped_md, "\n"))), << "\n" >>)
        ELSE stripped_md

\* The "simple stripping" of both branches: first and last line off the stripped text.
SimpleStrip(md, marker) ==
    LET stripped_md == Strip(md)
    IN  IF StartsWith(stripped_md, marker) /\ EndsWith(stripped_md, FENCE)
        THEN Join(PopLastFence(PopFirst(Split(stripped_md, "\n"))), << "\n" >>)
        ELSE md

\* Mutant: the first fence after the start marker closes the block.
EndIndexFirst(md, start_index) == FindFrom(md, FENCE, start_index)

\* The closing fence searched from after the start marker.
EndIndex(md, start_index) == RFind(md, FENCE, start_index)

\* Mutant: the block runs through the closing fence.
CleanedMdThroughFence(md) ==
    LET m == StartMarker(md)
    IN  IF m.actual_start_marker # None
        THEN LET end_index == EndIndex(md, m.start_index)
             IN  IF end_index # -1
                 THEN Strip(Slice(md, m.start_index, end_index + Len(FENCE)))
                 ELSE SimpleStrip(md, m.actual_start_marker)
        ELSE SimpleStrip(md, FENCE)

\* The text handed to the Markdown renderer.
CleanedMd(md) ==
    LET m == StartMarker(md)
    IN  IF m.actual_start_marker # None
        THEN LET end_index == EndIndex(md, m.start_index)
             IN  IF end_index # -1
                 THEN Strip(Slice(md, m.start_index, end_index))
                 ELSE SimpleStrip(md, m.actual_start_marker)
        ELSE SimpleStrip(md, FENCE)

----------------------------------------------------------------------------
(* Return values and inputs *)

RetNone == [kind |-> "none"]

RetBool(b) == [kind |-> "bool", value |-> b]

RetStr(s) == [kind |-> "str", value |-> s]

RECURSIVE TextsOf(_, _)
\* The concatenations of at most n chunks.
TextsOf(chunks, n) ==
    IF n = 0 THEN { << >> }
    ELSE LET S == TextsOf(chunks, n - 1)
         IN  S \cup { t \o c : t \in S, c \in chunks }

FenceChunks == { MARKDOWN_FENCE, FENCE, << BT >>, << " " >>, << "\n" >>, << "x" >> }

\* M between the lines "```markdown" and "```"
Wrap(M) == MARKDOWN_FENCE \o << "\n" >> \o M \o << "\n" >> \o FENCE

MdFiles ==
    TextsOf(FenceChunks, MaxChunks)
        \cup { Wrap(M) : M \in TextsOf(FenceChunks, MaxChunks - 1) }

----------------------------------------------------------------------------
(* convert_md_to_pdf *)

\* The steps of convert_md_to_pdf that can raise, in program order.
PdfSteps == << "open", "markdown", "fitz_open", "new_page", "insert_htmlbox",
               "save", "close" >>

NoFault == [step |-> "none"]

\* One step of steps raises, or none does.
FaultsOf(steps) == { [step |-> steps[i]] : i \in 1..Len(steps) } \cup { NoFault }

\* Whether the exception of step f leaves the function: no try block of the
\* function, whose steps are tried, holds the step.
Raises(tried, f) == f # NoFault /\ \A i \in 1..Len(tried) : tried[i] # f.step

\* Whether step runs to completion when the step f names raises.
Completes(steps, step, f) ==
    \E i \in 1..Len(steps) :
        /\ steps[i] = step
        /\ \A j \in 1..i : steps[j] # f.step

\* The steps inside convert_md_to_pdf's try block.
PdfTried == PdfSteps

\* What page.insert_htmlbox can return: -1, -2, an empty Rect, a non-empty Rect.
InsertHtmlboxResults == { "minus_one", "minus_two", "rect_empty", "rect_not_empty" }

letterhead_spacer_html == [tag |-> "div", style |-> "height: 3cm;"]

\* markdown.markdown(text, extensions=['tables', 'fenced_code']), left uninterpreted
MarkdownHtml(text) == [tag |-> "markdown", of |-> text]

\* Mutant: the snippet is laid out without the spacer.
html_snippet_alone(text) == << MarkdownHtml(text) >>

html_snippet_with_spacer(text) == << letterhead_spacer_html, MarkdownHtml(text) >>

\* doc.new_page(width=595, height=842)
PAGE_WIDTH == 595

PAGE_HEIGHT == 842

\* fitz.Rect(50, 50, 595 - 50, 842 - 50)
MARGIN == 50

rect == [x0 |-> MARGIN, y0 |-> MARGIN, x1 |-> PAGE_WIDTH - MARGIN, y1 |-> PAGE_HEIGHT - MARGIN]

\* The pages of doc when step f raises.
doc_pages(f) ==
    IF Completes(PdfSteps, "new_page", f)
    THEN << [width |-> PAGE_WIDTH, height |-> PAGE_HEIGHT] >>
    ELSE << >>

\* The message printed for what insert_htmlbox returned (none when all content fitted).
LayoutWarning(rv) ==
    IF rv = "minus_one" THEN << "Warning: fitz.insert_htmlbox general error (code -1)." >>
    ELSE IF rv = "minus_two"
    THEN << "Warning: fitz.insert_htmlbox invalid HTML/CSS (code -2)." >>
    ELSE IF rv = "rect_not_empty"
    THEN << "Warning: fitz.insert_htmlbox indicates content overflow." >>
    ELSE << >>

\* Mutant: only a layout that fitted is reported as success.
PdfSuccessIfFit(rv) == RetBool(rv = "rect_empty")

\* The value convert_md_to_pdf returns once the PDF is saved and closed.
PdfSuccess(rv) == RetBool(TRUE)

\* except Exception as e: print(...); return False
PdfFailure == RetBool(FALSE)

\* The body of convert_md_to_pdf when step f raises and insert_htmlbox returns rv.
md_to_pdf(f, rv) ==
    LET ok(step) == Completes(PdfSteps, step, f)
        cleaned == CleanedMd(md_content)
    IN  /\ io' = << "open md_path r" >>
                 \o (IF ok("insert_htmlbox") THEN << "save output_path" >> ELSE << >>)
        /\ cleaned_md_content' = IF ok("open") THEN RetStr(cleaned) ELSE RetNone
        /\ html_for_fitz' =
               IF ok("markdown") THEN html_snippet_with_spacer(cleaned) ELSE << >>
        /\ returned_value' = IF ok("insert_htmlbox") THEN rv ELSE "none"
        /\ printed' =
               (IF ok("open") THEN << "Cleaned MD Content" >> ELSE << >>)
            \o (IF ok("markdown") THEN << "Generated HTML Snippet" >> ELSE << >>)
            \o (IF ok("insert_htmlbox") THEN LayoutWarning(rv) ELSE << >>)
            \o (IF f # NoFault /\ ~Raises(PdfTried, f)
                THEN << "Error converting Markdown to PDF" >> ELSE << >>)
        /\ doc' = IF ok("close") THEN "closed"
                  ELSE IF ok("fitz_open") THEN "open" ELSE "none"
        /\ saved' = ok("save")
        /\ returned' = IF f = NoFault THEN PdfSuccess(rv)
                       ELSE IF Raises(PdfTried, f) THEN RetNone ELSE PdfFailure
        /\ raised' = Raises(PdfTried, f)
        /\ UNCHANGED << written, side_files >>

convert_md_to_pdf ==
    /\ pc = "call"
    /\ call.fn = "convert_md_to_pdf"
    /\ \E f \in FaultsOf(PdfSteps), rv \in InsertHtmlboxResults :
          md_to_pdf(f, rv) /\ fault' = f
    /\ called' = << "convert_md_to_pdf" >>
    /\ pc' = "done"
    /\ UNCHANGED << inputs, app >>

\* Before the call: nothing done, nothing returned.
NothingDone ==
    /\ pc = "call"
    /\ fault = NoFault
    /\ called = << >>
    /\ io = << >>
    /\ cleaned_md_content = RetNone
    /\ html_for_fitz = << >>
    /\ returned_value = "none"
    /\ printed = << >>
    /\ doc = "none"
    /\ saved = FALSE
    /\ written = RetNone
    /\ side_files = << >>
    /\ returned = RetNone
    /\ raised = FALSE
    /\ AppStarted

InitMdToPdf ==
    /\ NothingDone
    /\ call = [fn |-> "convert_md_to_pdf", path |-> << >>]
    /\ md_content \in MdFiles
    /\ body = << >>
    /\ pages = << >>

NextMdToPdf == convert_md_to_pdf

SpecMdToPdf == InitMdToPdf /\ [][NextMdToPdf]_vars

----------------------------------------------------------------------------
(* Properties of the fence-stripping step *)

\* Where sub occurs in s (0-based).
Occurrences(s, sub) == { i \in 0..(Len(s) - Len(sub)) : MatchAt(s, sub, i) }

AtStartOrAfterSpace(s, i) == i = 0 \/ IsSpace(s[i])

\* The end of the fence marker that starts at i, with its "markdown" tag if it has one.
MarkerEnd(s, i) ==
    IF MatchAt(s, MARKDOWN_FENCE, i) THEN i + Len(MARKDOWN_FENCE) ELSE i + Len(FENCE)

FenceAtOrAfter(s, e) == \E j \in Occurrences(s, FENCE) : j >= e

\* Fence markers at position 0 or after whitespace that a later fence follows.
PairedOpenings(s) ==
    { i \in Occurrences(s, FENCE) :
        AtStartOrAfterSpace(s, i) /\ FenceAtOrAfter(s, MarkerEnd(s, i)) }

Normalized == pc = "done" /\ cleaned_md_content.kind = "str"

\* C1 as stated: whenever some fence marker at position 0 or after whitespace has
\* a later fence, the cleaned text is the trimmed text between the end of the
\* earliest such marker and the last fence of the text.
C1_EarliestOpening ==
    (Normalized /\ PairedOpenings(md_content) # {}) =>
        cleaned_md_content.value =
            Strip(Slice(md_content,
                        MarkerEnd(md_content, Min(PairedOpenings(md_content))),
                        Max(Occurrences(md_content, FENCE))))

\* The end of the marker the code opens the block at: the first "```markdown" of
\* the text when it is at position 0 or after whitespace, otherwise the first
\* "```" of the text when it is; -1 when neither is.
FirstOccurrenceOpening(s) ==
    LET tagged == Occurrences(s, MARKDOWN_FENCE)
        bare == Occurrences(s, FENCE)
    IN  IF tagged # {} /\ AtStartOrAfterSpace(s, Min(tagged))
        THEN Min(tagged) + Len(MARKDOWN_FENCE)
        ELSE IF bare # {} /\ AtStartOrAfterSpace(s, Min(bare))
        THEN Min(bare) + Len(FENCE)
        ELSE -1

\* C1 (amended): when the first "```markdown" of the text (or, failing that, the
\* first "```") is at position 0 or after whitespace and a fence starts at or
\* after its end, the cleaned text is the trimmed text between the end of that
\* marker and the last fence of the text.
C1_FirstOccurrenceOpening ==
    LET e == FirstOccurrenceOpening(md_content)
    IN  (Normalized /\ e # -1 /\ FenceAtOrAfter(md_content, e)) =>
            cleaned_md_content.value =
                Strip(Slice(md_content, e, Max(Occurrences(md_content, FENCE))))

\* A block is cut out of a text with an inner fence, and it is not empty.
C1_Witness ==
    LET e == FirstOccurrenceOpening(md_content)
    IN  /\ Normalized
        /\ e # -1
        /\ FenceAtOrAfter(md_content, e)
        /\ Cardinality(Occurrences(md_content, FENCE)) >= 3
        /\ cleaned_md_content.value # << >>

IsWrapped(s) ==
    /\ Len(s) >= Len(Wrap(<< >>))
    /\ StartsWith(s, MARKDOWN_FENCE \o << "\n" >>)
    /\ EndsWith(s, << "\n" >> \o FENCE)

\* M of Wrap(M)
Unwrap(s) == Slice(s, Len(MARKDOWN_FENCE) + 1, Len(s) - Len(FENCE) - 1)

HasBareFenceLine(M) ==
    LET lines == Split(M, "\n")
    IN  \E k \in 1..Len(lines) : Strip(lines[k]) = FENCE

\* C2: the text "```markdown" / M / "```" with no bare fence line in M is cleaned
\* to M trimmed.
C2_RoundTrip ==
    (Normalized /\ IsWrapped(md_content) /\ ~HasBareFenceLine(Unwrap(md_content))) =>
        cleaned_md_content.value = Strip(Unwrap(md_content))

\* A wrapped M that holds a fence inside a line and is not blank.
C2_Witness ==
    /\ Normalized
    /\ IsWrapped(md_content)
    /\ ~HasBareFenceLine(Unwrap(md_content))
    /\ Occurrences(Unwrap(md_content), FENCE) # {}
    /\ cleaned_md_content.value = Strip(Unwrap(md_content))
    /\ cleaned_md_content.value # << >>

StartsAndEndsWithFence(s) == StartsWith(Strip(s), FENCE) /\ EndsWith(Strip(s), FENCE)

\* C3: a text with no paired fence after whitespace, whose trimmed form does not
\* both start and end with a fence, is handed on unchanged, and no input makes
\* the call raise.
C3_Identity ==
    /\ ~raised
    /\ (Normalized /\ PairedOpenings(md_content) = {}
            /\ ~StartsAndEndsWithFence(md_content)) =>
           cleaned_md_content.value = md_content

\* A text with a fence and surrounding whitespace that no rule applies to.
C3_Witness ==
    /\ Normalized
    /\ PairedOpenings(md_content) = {}
    /\ ~StartsAndEndsWithFence(md_content)
    /\ Occurrences(md_content, FENCE) # {}
    /\ Strip(md_content) # md_content
    /\ cleaned_md_content.value = md_content

\* The lines of s without the first and the last.
InnerLines(s) ==
    LET lines == Split(s, "\n")
    IN  Join(SubSeq(lines, 2, Len(lines) - 1), << "\n" >>)

\* No opening marker with a later closing fence: in the text, or found by the code.
NoPairedFence(s) ==
    \/ PairedOpenings(s) = {}
    \/ StartMarker(s).actual_start_marker = None
    \/ EndIndex(s, StartMarker(s).start_index) = -1

\* C4: with no paired fence, a text whose trimmed form starts and ends with a
\* fence is cleaned to its trimmed form without the first and the last line.
C4_FallbackStripsFirstAndLastLine ==
    (Normalized /\ NoPairedFence(md_content) /\ StartsAndEndsWithFence(md_content)) =>
        cleaned_md_content.value = InnerLines(Strip(md_content))

\* The fallback applied to a text with whitespace around its fence.
C4_Witness ==
    /\ Normalized
    /\ NoPairedFence(md_content)
    /\ StartsAndEndsWithFence(md_content)
    /\ Strip(md_content) # md_content
    /\ cleaned_md_content.value = << >>

----------------------------------------------------------------------------
(* Properties of convert_md_to_pdf's result *)

\* C5: the value returned tells the layout outcomes apart: the value returned
\* for content that fitted is returned for no other outcome, so an overflow or a
\* render error is never behind an ordinary success.
C5_ReturnDistinguishesLayout ==
    (pc = "done" /\ returned_value # "none" /\ returned = RetBool(TRUE)) =>
        returned_value = "rect_empty"

----------------------------------------------------------------------------
(* convert_docx_to_md *)

UPPER == << "A", "B", "C", "D", "E", "F", "G", "H", "I", "J", "K", "L", "M",
            "N", "O", "P", "Q", "R", "S", "T", "U", "V", "W", "X", "Y", "Z" >>

LOWER == << "a", "b", "c", "d", "e", "f", "g", "h", "i", "j", "k", "l", "m",
            "n", "o", "p", "q", "r", "s", "t", "u", "v", "w", "x", "y", "z" >>

LowerChar(c) ==
    IF \E i \in 1..Len(UPPER) : UPPER[i] = c
    THEN LOWER[CHOOSE i \in 1..Len(UPPER) : UPPER[i] = c]
    ELSE c

\* s.lower()
Lower(s) == [i \in 1..Len(s) |-> LowerChar(s[i])]

DIGITS == << "0", "1", "2", "3", "4", "5", "6", "7", "8", "9" >>

IsDigit(c) == \E i \in 1..Len(DIGITS) : DIGITS[i] = c

\* int(c) for a digit c
DigitValue(c) == (CHOOSE i \in 1..Len(DIGITS) : DIGITS[i] = c) - 1

\* str(n) for 0 <= n <= 9
DigitOf(n) == DIGITS[n + 1]

RECURSIVE Repeat(_, _)
\* s * n
Repeat(s, n) == IF n <= 0 THEN << >> ELSE s \o Repeat(s, n - 1)

\* The two characters of the literal '\\n': a backslash and the letter n.
LINE_BREAK_MARKER == << "\\", "n" >>

HEADING == << "H", "e", "a", "d", "i", "n", "g" >>

TITLE == << "t", "i", "t", "l", "e" >>

SUBTITLE == << "s", "u", "b" >> \o TITLE

\* para.text
ParaText(para) == Concat([i \in 1..Len(para.runs) |-> para.runs[i].text])

\* any(isinstance(run.element, CT_Drawing) for run in para.runs)
HasDrawing(para) == \E i \in 1..Len(para.runs) : para.runs[i].drawing

\* try: int(para.style.name[-1]) except ValueError: title, subtitle, default
HeadingLevel(name) ==
    IF IsDigit(name[Len(name)]) THEN DigitValue(name[Len(name)])
    ELSE IF Lower(name) = TITLE THEN 1
    ELSE IF Lower(name) = SUBTITLE THEN 2
    ELSE 1

\* The string appended for a paragraph whose style name starts with "Heading".
HeadingMd(para) ==
    LET heading_level == HeadingLevel(para.style)
    IN  IF heading_level > 0
        THEN Repeat(<< "#" >>, heading_level) \o << " " >> \o Strip(ParaText(para))
                 \o LINE_BREAK_MARKER \o LINE_BREAK_MARKER
        ELSE << "#", "#", " " >> \o Strip(ParaText(para))
                 \o LINE_BREAK_MARKER \o LINE_BREAK_MARKER

\* One run of a body paragraph with its emphasis markers.
RunMd(run) ==
    IF run.bold /\ run.italic THEN << "*", "*", "*" >> \o run.text \o << "*", "*", "*" >>
    ELSE IF run.bold THEN << "*", "*" >> \o run.text \o << "*", "*" >>
    ELSE IF run.italic THEN << "*" >> \o run.text \o << "*" >>
    ELSE run.text

\* What the loop appends for a paragraph block.
ParagraphMd(para) ==
    IF Strip(ParaText(para)) = << >>
    THEN IF ~HasDrawing(para) THEN LINE_BREAK_MARKER ELSE << >>
    ELSE IF StartsWith(para.style, HEADING) THEN HeadingMd(para)
    ELSE Concat([i \in 1..Len(para.runs) |-> RunMd(para.runs[i])])
             \o LINE_BREAK_MARKER \o LINE_BREAK_MARKER

\* '| ' + ' | '.join(cells) + ' |\\n'
PipeRowMd(cells) ==
    << "|", " " >> \o Join(cells, << " ", "|", " " >>) \o << " ", "|" >> \o LINE_BREAK_MARKER

\* cell.text.strip() for cell in row.cells
StrippedCells(row) == [k \in 1..Len(row) |-> Strip(row[k])]

\* '---' for _ in header_cells
SeparatorCells(header_cells) == [k \in 1..Len(header_cells) |-> << "-", "-", "-" >>]

\* What the loop appends for a table block.
TableMd(table) ==
    IF table.rows = << >> THEN << >>
    ELSE LET header_cells == table.rows[1]
         IN  PipeRowMd(StrippedCells(header_cells))
                 \o PipeRowMd(SeparatorCells(header_cells))
                 \o Concat([r \in 1..(Len(table.rows) - 1) |->
                               PipeRowMd(StrippedCells(table.rows[r + 1]))])
                 \o LINE_BREAK_MARKER

BlockMd(block) == IF block.type = "p" THEN ParagraphMd(block) ELSE TableMd(block)

\* "".join(md_content) after the loop over doc.element.body
JoinedMd(blocks) == Concat([i \in 1..Len(blocks) |-> BlockMd(blocks[i])])

RECURSIVE MarkersAt(_, _)
\* How many LINE_BREAK_MARKERs follow one another in s from position i on.
MarkersAt(s, i) ==
    IF MatchAt(s, LINE_BREAK_MARKER, i)
    THEN 1 + MarkersAt(s, i + Len(LINE_BREAK_MARKER))
    ELSE 0

\* What the replacement template '\\n\\n' expands to: two line feeds.
COLLAPSED == << "\n", "\n" >>

RECURSIVE CollapseFrom(_, _)
CollapseFrom(s, i) ==
    IF i >= Len(s) THEN << >>
    ELSE LET n == MarkersAt(s, i)
         IN  IF n >= 3
             THEN COLLAPSED \o CollapseFrom(s, i + n * Len(LINE_BREAK_MARKER))
             ELSE << s[i + 1] >> \o CollapseFrom(s, i + 1)

\* re.sub(r'(\\n){3,}', '\\n\\n', final_md)
CollapseMarkers(s) == CollapseFrom(s, 0)

final_md(blocks) == CollapseMarkers(JoinedMd(blocks))

DocxSteps == << "Document", "body", "write" >>

\* The steps inside convert_docx_to_md's try blocks: the outer one, and the
\* inner one around the write.
DocxTried == << "Document", "body" >>

\* Mutant: the write of the side file has no handler of its own.
DocxWriteUntried == << >>

DocxWriteTried == << "write" >>

ERROR_CONVERTING ==
    << "E", "r", "r", "o", "r", " ", "c", "o", "n", "v", "e", "r", "t", "i", "n", "g", " " >>

TO_MARKDOWN == << " ", "t", "o", " ", "M", "a", "r", "k", "d", "o", "w", "n", ":", " " >>

\* str(e): the message of the exception, left uninterpreted
STR_E == << "e" >>

DOCX_ERROR == ERROR_CONVERTING \o << "D", "O", "C", "X" >> \o TO_MARKDOWN

\* The body of convert_docx_to_md when step f raises.
docx_to_md(f) ==
    LET ok(step) == Completes(DocxSteps, step, f)
    IN  /\ io' = << "open docx_path r" >>
                 \o (IF ok("body") THEN << "open output_path w" >> ELSE << >>)
        /\ written' = IF ok("write") THEN RetStr(final_md(body)) ELSE RetNone
        /\ printed' = IF f.step = "write" /\ ~Raises(DocxWriteTried, f)
                      THEN << "Warning: Could not save file" >> ELSE << >>
        /\ returned' = IF Raises(DocxTried \o DocxWriteTried, f) THEN RetNone
                       ELSE IF ok("body") THEN RetStr(Strip(final_md(body)))
                       ELSE RetStr(DOCX_ERROR \o STR_E)
        /\ raised' = Raises(DocxTried \o DocxWriteTried, f)
        /\ UNCHANGED << cleaned_md_content, html_for_fitz, returned_value, doc, saved,
                        side_files >>

convert_docx_to_md ==
    /\ pc = "call"
    /\ call.fn = "convert_docx_to_md"
    /\ \E f \in FaultsOf(DocxSteps) : docx_to_md(f) /\ fault' = f
    /\ called' = << "convert_docx_to_md" >>
    /\ pc' = "done"
    /\ UNCHANGED << inputs, app >>

\* The runs and paragraphs the bodies are built from.
Run(text, bold, italic) ==
    [text |-> text, bold |-> bold, italic |-> italic, drawing |-> FALSE]

DrawingRun == [text |-> << >>, bold |-> FALSE, italic |-> FALSE, drawing |-> TRUE]

Para(style, runs) == [type |-> "p", style |-> style, runs |-> runs]

Table(rows) == [type |-> "tbl", rows |-> rows]

NORMAL == << "N", "o", "r", "m", "a", "l" >>

CellTexts == { << "a" >>, << " ", "b", " " >> }

\* The tables of n rows of k cells each.
TablesOf(n, k) == { Table(rows) : rows \in [1..n -> [1..k -> CellTexts]] }

DocxTables == UNION { TablesOf(n, k) : n \in 0..MaxRows, k \in 1..MaxCols }

DocxParagraphs ==
    { Para(NORMAL, << >>),
      Para(NORMAL, << DrawingRun >>),
      Para(HEADING \o << " ", "1" >>, << Run(<< "T" >>, FALSE, FALSE) >>),
      Para(HEADING \o << " ", "2" >>, << Run(<< "T", " " >>, FALSE, FALSE) >>),
      Para(HEADING, << Run(<< "T" >>, FALSE, FALSE) >>),
      Para(<< "T" >> \o Tail(TITLE), << Run(<< "T" >>, FALSE, FALSE) >>),
      Para(<< "S" >> \o Tail(SUBTITLE), << Run(<< "T" >>, FALSE, FALSE) >>),
      Para(NORMAL, << Run(<< "x" >>, FALSE, FALSE), Run(<< "y" >>, TRUE, FALSE) >>),
      Para(NORMAL, << Run(<< "x" >>, TRUE, TRUE), Run(<< "y" >>, FALSE, TRUE) >>) }

RECURSIVE SeqsOf(_, _)
\* The sequences of at most n elements of S.
SeqsOf(S, n) ==
    IF n = 0 THEN { << >> }
    ELSE LET T == SeqsOf(S, n - 1)
         IN  T \cup { Append(t, x) : t \in T, x \in S }

\* Bodies of paragraphs and one-cell tables, and bodies of one table alone.
DocxBodies ==
    SeqsOf(DocxParagraphs \cup TablesOf(1, 1), MaxBlocks)
        \cup { << t >> : t \in DocxTables }

InitDocx ==
    /\ NothingDone
    /\ call = [fn |-> "convert_docx_to_md", path |-> << >>]
    /\ md_content = << >>
    /\ body \in DocxBodies
    /\ pages = << >>

NextDocx == convert_docx_to_md

SpecDocx == InitDocx /\ [][NextDocx]_vars

----------------------------------------------------------------------------
(* Properties of convert_docx_to_md *)

\* A pipe-table row as a line of Markdown.
PipeLine(cells) == << "|", " " >> \o Join(cells, << " ", "|", " " >>) \o << " ", "|" >>

\* The lines of the pipe table of rows: header, separator, then the other rows.
PipeTableLines(rows) ==
    << PipeLine([k \in 1..Len(rows[1]) |-> Strip(rows[1][k])]),
       PipeLine([k \in 1..Len(rows[1]) |-> << "-", "-", "-" >>]) >>
        \o [r \in 1..(Len(rows) - 1) |->
               PipeLine([k \in 1..Len(rows[r + 1]) |-> Strip(rows[r + 1][k])])]

ConvertedTableAlone ==
    /\ pc = "done"
    /\ call.fn = "convert_docx_to_md"
    /\ fault = NoFault
    /\ Len(body) = 1
    /\ body[1].type = "tbl"

\* C8: the Markdown of a document holding one table of N >= 1 rows and K columns
\* is N pipe-table rows of K trimmed cells, with one separator row of K "---"
\* cells directly after the header row; a table of no rows gives nothing.
C8_TableShape ==
    ConvertedTableAlone =>
        IF body[1].rows = << >>
        THEN returned.value = << >>
        ELSE Split(returned.value, "\n") = PipeTableLines(body[1].rows)

----------------------------------------------------------------------------
(* convert_md_to_txt *)

RECURSIVE RunEnd(_, _, _)
\* The end of the longest run of characters of set S that starts at i.
RunEnd(s, S, i) == IF i < Len(s) /\ s[i + 1] \in S THEN RunEnd(s, S, i + 1) ELSE i

RECURSIVE RunEndNot(_, _, _)
\* The end of the longest run of characters other than c that starts at i.
RunEndNot(s, c, i) == IF i < Len(s) /\ s[i + 1] # c THEN RunEndNot(s, c, i + 1) ELSE i

\* s[i] == c, false past the end
CharAt(s, i, c) == i >= 0 /\ i < Len(s) /\ s[i + 1] = c

\* \w
IsWordChar(c) ==
    \/ \E i \in 1..Len(UPPER) : c = UPPER[i] \/ c = LOWER[i]
    \/ IsDigit(c)
    \/ c = "_"

\* \b between s[i-1] and s[i]
WordBoundary(s, i) ==
    (i > 0 /\ IsWordChar(s[i])) # (i < Len(s) /\ IsWordChar(s[i + 1]))

\* Where a match of #+\s+ that starts at i ends (-1: no match at i).
HeaderMatch(s, i) ==
    LET j == RunEnd(s, { "#" }, i)
        k == RunEnd(s, Whitespace, j)
    IN  IF j > i /\ k > j THEN k ELSE -1

RECURSIVE RemoveHeaders(_, _)
\* re.sub(r'#+\s+', '', s)
RemoveHeaders(s, i) ==
    IF i >= Len(s) THEN << >>
    ELSE IF HeaderMatch(s, i) # -1 THEN RemoveHeaders(s, HeaderMatch(s, i))
    ELSE << s[i + 1] >> \o RemoveHeaders(s, i + 1)

\* Where a match of \*\*|\*|__|\b_\b that starts at i ends (-1: no match at i).
EmphasisMatch(s, i) ==
    IF CharAt(s, i, "*") THEN (IF CharAt(s, i + 1, "*") THEN i + 2 ELSE i + 1)
    ELSE IF CharAt(s, i, "_") /\ CharAt(s, i + 1, "_") THEN i + 2
    ELSE IF CharAt(s, i, "_") /\ WordBoundary(s, i) /\ WordBoundary(s, i + 1) THEN i + 1
    ELSE -1

RECURSIVE RemoveEmphasis(_, _)
\* re.sub(r'\*\*|\*|__|\b_\b', '', s)
RemoveEmphasis(s, i) ==
    IF i >= Len(s) THEN << >>
    ELSE IF EmphasisMatch(s, i) # -1 THEN RemoveEmphasis(s, EmphasisMatch(s, i))
    ELSE << s[i + 1] >> \o RemoveEmphasis(s, i + 1)

\* A match of \[([^\]]+)\]\([^)]+\) that starts at i: where its label and the
\* match end (stop = -1: no match at i).
LinkMatch(s, i) ==
    LET j == RunEndNot(s, "]", i + 1)
        k == RunEndNot(s, ")", j + 2)
    IN  IF /\ CharAt(s, i, "[")
           /\ j > i + 1
           /\ CharAt(s, j, "]")
           /\ CharAt(s, j + 1, "(")
           /\ k > j + 2
           /\ CharAt(s, k, ")")
        THEN [label_end |-> j, stop |-> k + 1]
        ELSE [label_end |-> -1, stop |-> -1]

RECURSIVE ReplaceLinks(_, _)
\* re.sub(r'\[([^\]]+)\]\([^)]+\)', r'\1', s)
ReplaceLinks(s, i) ==
    IF i >= Len(s) THEN << >>
    ELSE LET m == LinkMatch(s, i)
         IN  IF m.stop # -1
             THEN Slice(s, i + 1, m.label_end) \o ReplaceLinks(s, m.stop)
             ELSE << s[i + 1] >> \o ReplaceLinks(s, i + 1)

\* Where a match of !\[([^\]]+)\]\([^)]+\) that starts at i ends (-1: no match at i).
ImageMatch(s, i) == IF CharAt(s, i, "!") THEN LinkMatch(s, i + 1).stop ELSE -1

RECURSIVE RemoveImages(_, _)
\* re.sub(r'!\[([^\]]+)\]\([^)]+\)', '', s)
RemoveImages(s, i) ==
    IF i >= Len(s) THEN << >>
    ELSE IF ImageMatch(s, i) # -1 THEN RemoveImages(s, ImageMatch(s, i))
    ELSE << s[i + 1] >> \o RemoveImages(s, i + 1)

\* Where a match of ```[^`]*``` that starts at i ends (-1: no match at i).
CodeBlockMatch(s, i) ==
    LET j == RunEndNot(s, BT, i + Len(FENCE))
    IN  IF MatchAt(s, FENCE, i) /\ MatchAt(s, FENCE, j) THEN j + Len(FENCE) ELSE -1

RECURSIVE RemoveCodeBlocks(_, _)
\* re.sub(r'```[^`]*```', '', s)
RemoveCodeBlocks(s, i) ==
    IF i >= Len(s) THEN << >>
    ELSE IF CodeBlockMatch(s, i) # -1 THEN RemoveCodeBlocks(s, CodeBlockMatch(s, i))
    ELSE << s[i + 1] >> \o RemoveCodeBlocks(s, i + 1)

\* The five substitutions of convert_md_to_txt.
WithoutHeaders(s) == RemoveHeaders(s, 0)

\* Mutant: the emphasis markers are left in the text.
WithEmphasis(s) == s

WithoutEmphasis(s) == RemoveEmphasis(s, 0)

WithoutLinks(s) == ReplaceLinks(s, 0)

WithoutImages(s) == RemoveImages(s, 0)

WithoutCodeBlocks(s) == RemoveCodeBlocks(s, 0)

\* The text convert_md_to_txt writes for md: the substitutions in program order.
txt_content(md) ==
    WithoutCodeBlocks(WithoutImages(WithoutLinks(WithoutEmphasis(WithoutHeaders(md)))))

TxtSteps == << "open", "write" >>

\* The steps inside convert_md_to_txt's try block.
TxtTried == TxtSteps

\* The body of convert_md_to_txt when step f raises.
md_to_txt(f) ==
    LET ok(step) == Completes(TxtSteps, step, f)
    IN  /\ io' = << "open md_path r" >>
                 \o (IF ok("open") THEN << "open output_path w" >> ELSE << >>)
        /\ written' = IF ok("write") THEN RetStr(txt_content(md_content)) ELSE RetNone
        /\ printed' = IF f # NoFault /\ ~Raises(TxtTried, f)
                      THEN << "Error converting Markdown to TXT" >> ELSE << >>
        /\ returned' = IF Raises(TxtTried, f) THEN RetNone ELSE RetBool(f = NoFault)
        /\ raised' = Raises(TxtTried, f)
        /\ UNCHANGED << cleaned_md_content, html_for_fitz, returned_value, doc, saved,
                        side_files >>

convert_md_to_txt ==
    /\ pc = "call"
    /\ call.fn = "convert_md_to_txt"
    /\ \E f \in FaultsOf(TxtSteps) : md_to_txt(f) /\ fault' = f
    /\ called' = << "convert_md_to_txt" >>
    /\ pc' = "done"
    /\ UNCHANGED << inputs, app >>

LINK == << "[", "a", "]", "(", "u", ")" >>

IMAGE == << "!" >> \o LINK

MarkupChunks ==
    { << "#" >>, << "*" >>, << " " >>, << "x" >>, << "!" >>,
      << "[", "a", "]" >>, << "(", "u", ")" >>, << "]", "(" >> }

OtherMarkupChunks == { << "_" >>, << "x" >>, << " " >>, << "[" >>, FENCE }

MarkupFiles ==
    TextsOf(MarkupChunks, MaxChunks) \cup TextsOf(OtherMarkupChunks, MaxChunks)

InitTxt ==
    /\ NothingDone
    /\ call = [fn |-> "convert_md_to_txt", path |-> << >>]
    /\ md_content \in MarkupFiles
    /\ body = << >>
    /\ pages = << >>

NextTxt == convert_md_to_txt

SpecTxt == InitTxt /\ [][NextTxt]_vars

----------------------------------------------------------------------------
(* Properties of convert_md_to_txt *)

TxtWritten == pc = "done" /\ call.fn = "convert_md_to_txt" /\ written.kind = "str"

Contains(s, sub) == Occurrences(s, sub) # {}

\* C9 as stated: the text written contains none of "##", "**" and "](".
C9_NoMarkupLeft ==
    TxtWritten =>
        /\ ~Contains(written.value, << "#", "#" >>)
        /\ ~Contains(written.value, << "*", "*" >>)
        /\ ~Contains(written.value, << "]", "(" >>)

\* C9 (amended): the text written contains no "**"; it holds no asterisk at all.
C9_NoAsteriskLeft == TxtWritten => ~Contains(written.value, << "*" >>)

\* A text with "**" in it was written without it, something else being left.
C9_Witness ==
    /\ TxtWritten
    /\ Contains(md_content, << "*", "*" >>)
    /\ ~Contains(written.value, << "*" >>)
    /\ written.value # << >>

IsPlain(s) == \A i \in 1..Len(s) : s[i] \in { "x", " " }

\* C10: a link is replaced by exactly its label, and an image is dropped
\* entirely, here in a text that is otherwise plain.
C10_LinksAndImages ==
    TxtWritten =>
        /\ \A i \in Occurrences(md_content, LINK) :
               LET pre == Slice(md_content, 0, i)
                   post == Slice(md_content, i + Len(LINK), Len(md_content))
               IN  (IsPlain(pre) /\ IsPlain(post)) =>
                       written.value = pre \o << "a" >> \o post
        /\ \A i \in Occurrences(md_content, IMAGE) :
               LET pre == Slice(md_content, 0, i)
                   post == Slice(md_content, i + Len(IMAGE), Len(md_content))
               IN  (IsPlain(pre) /\ IsPlain(post)) => written.value = pre \o post

----------------------------------------------------------------------------
(* convert_pdf_to_md *)

\* Mutant: the file name holds the image's index only.
img_filename_by_index(p, i) ==
    << "i", "m", "a", "g", "e", "_", DigitOf(i), ".", "p", "n", "g" >>

\* f"image_p{page_num + 1}_{img_index + 1}.png"
img_filename(p, i) ==
    << "i", "m", "a", "g", "e", "_", "p", DigitOf(p), "_", DigitOf(i),
       ".", "p", "n", "g" >>

\* f"## Page {page_num + 1}\n"
PageHeader(p) == << "#", "#", " ", "P", "a", "g", "e", " ", DigitOf(p), "\n" >>

\* f"![Image {img_index + 1} from page {page_num + 1}]({img_filename})\n\n"
ImageRef(p, i) ==
    << "!", "[", "I", "m", "a", "g", "e", " ", DigitOf(i), " ", "f", "r", "o", "m", " ",
       "p", "a", "g", "e", " ", DigitOf(p), "]", "(" >>
        \o img_filename(p, i) \o << ")", "\n", "\n" >>

\* What the loop appends for page p (1-based).
PageMd(p, page) ==
    PageHeader(p) \o page.text \o << "\n", "\n" >>
        \o Concat([i \in 1..page.images |-> ImageRef(p, i)])

Step(name, p, i) == [step |-> name, page |-> p, image |-> i]

\* The steps of one page that can raise, in program order.
PageSteps(p, page) ==
    << Step("get_text", p, 0), Step("get_images", p, 0) >>
        \o Concat([i \in 1..page.images |->
                      << Step("extract_image", p, i), Step("Image.open", p, i),
                         Step("image.save", p, i) >>])

\* The steps of convert_pdf_to_md on pdf that can raise, in program order.
PdfMdSteps(pdf) ==
    << Step("fitz.open", 0, 0) >>
        \o Concat([p \in 1..Len(pdf) |-> PageSteps(p, pdf[p])])

\* The position of step f among steps (past the end when none raises).
FaultAt(steps, f) ==
    IF \E k \in 1..Len(steps) : steps[k] = f
    THEN CHOOSE k \in 1..Len(steps) : steps[k] = f
    ELSE Len(steps) + 1

\* What a step that has completed leaves appended to the list md_content.
AppendedBy(st, pdf) ==
    IF st.step = "get_text"
    THEN << PageHeader(st.page), pdf[st.page].text, << "\n", "\n" >> >>
    ELSE IF st.step = "image.save" THEN << ImageRef(st.page, st.image) >>
    ELSE << >>

\* The list md_content of convert_pdf_to_md on pdf when step f raises.
md_content_list(pdf, f) ==
    LET steps == PdfMdSteps(pdf)
        done == SubSeq(steps, 1, FaultAt(steps, f) - 1)
    IN  Concat([k \in 1..Len(done) |-> AppendedBy(done[k], pdf)])

\* Mutant: the document is opened before the try block.
PdfMdTriedAfterOpen ==
    << "get_text", "get_images", "extract_image", "Image.open", "image.save" >>

\* The steps inside convert_pdf_to_md's try block.
PdfMdTried ==
    << "fitz.open", "get_text", "get_images", "extract_image", "Image.open", "image.save" >>

PDF_ERROR == ERROR_CONVERTING \o << "P", "D", "F" >> \o TO_MARKDOWN

\* The body of convert_pdf_to_md when step f raises.
pdf_to_md(f) ==
    LET steps == PdfMdSteps(pages)
        done == SubSeq(steps, 1, FaultAt(steps, f) - 1)
        saves == SelectSeq(done, LAMBDA st : st.step = "image.save")
    IN  /\ io' = << "open pdf_path r" >>
                 \o [k \in 1..Len(saves) |-> "save image_path"]
                 \o (IF f.step = "image.save" THEN << "save image_path" >> ELSE << >>)
        /\ doc' = IF f.step = "fitz.open" THEN "none" ELSE "open"
        /\ side_files' = [k \in 1..Len(saves) |-> img_filename(saves[k].page, saves[k].image)]
        /\ raised' = Raises(PdfMdTried, f)
        /\ returned' =
               IF f = NoFault
               THEN RetStr(Concat([p \in 1..Len(pages) |-> PageMd(p, pages[p])]))
               ELSE IF Raises(PdfMdTried, f) THEN RetNone
               ELSE RetStr(PDF_ERROR \o STR_E)
        /\ UNCHANGED << cleaned_md_content, html_for_fitz, returned_value, printed, saved,
                        written >>

\* One step of convert_pdf_to_md on pdf raises, or none does.
PdfMdFaults(pdf) == { PdfMdSteps(pdf)[k] : k \in 1..Len(PdfMdSteps(pdf)) } \cup { NoFault }

convert_pdf_to_md ==
    /\ pc = "call"
    /\ call.fn = "convert_pdf_to_md"
    /\ \E f \in PdfMdFaults(pages) : pdf_to_md(f) /\ fault' = f
    /\ called' = << "convert_pdf_to_md" >>
    /\ pc' = "done"
    /\ UNCHANGED << inputs, app >>

PdfPages == { [text |-> t, images |-> n] : t \in { << >>, << "t" >> }, n \in 0..MaxImages }

PdfFiles == SeqsOf(PdfPages, MaxPages)

----------------------------------------------------------------------------
(* convert_txt_to_md *)

\* line.isupper()
IsUpper(line) ==
    /\ \E i \in 1..Len(line) : \E k \in 1..Len(UPPER) : line[i] = UPPER[k]
    /\ ~\E i \in 1..Len(line) : \E k \in 1..Len(LOWER) : line[i] = LOWER[k]

\* What the loop appends for a line.
TxtLineMd(line) ==
    IF Strip(line) = << >> THEN << "\n" >>
    ELSE IF IsUpper(line) \/ EndsWith(Strip(line), << ":" >>)
    THEN << "#", "#", " " >> \o line \o << "\n", "\n" >>
    ELSE line \o << "\n" >>

\* "".join(md_content) over content.split('\n')
TxtMd(content) ==
    LET lines == Split(content, "\n")
    IN  Concat([i \in 1..Len(lines) |-> TxtLineMd(lines[i])])

TxtMdSteps == << "open" >>

\* The steps inside convert_txt_to_md's try block.
TxtMdTried == TxtMdSteps

TXT_ERROR == ERROR_CONVERTING \o << "T", "X", "T" >> \o TO_MARKDOWN

\* The body of convert_txt_to_md when step f raises.
txt_to_md(f) ==
    /\ io' = << "open txt_path r" >>
    /\ raised' = Raises(TxtMdTried, f)
    /\ returned' = IF f = NoFault THEN RetStr(TxtMd(md_content))
                   ELSE IF Raises(TxtMdTried, f) THEN RetNone
                   ELSE RetStr(TXT_ERROR \o STR_E)
    /\ UNCHANGED << cleaned_md_content, html_for_fitz, returned_value, printed, doc, saved,
                    written, side_files >>

convert_txt_to_md ==
    /\ pc = "call"
    /\ call.fn = "convert_txt_to_md"
    /\ \E f \in FaultsOf(TxtMdSteps) : txt_to_md(f) /\ fault' = f
    /\ called' = << "convert_txt_to_md" >>
    /\ pc' = "done"
    /\ UNCHANGED << inputs, app >>

TxtFiles == TextsOf({ << "A" >>, << "a" >>, << ":" >>, << " " >>, << "\n" >> }, MaxChunks)

----------------------------------------------------------------------------
(* convert_docx_to_pdf *)

\* docx_to_pdf_converter raises with or without the message
\* "Neither MS Word nor LibreOffice found".
DocxPdfFaults == { NoFault, [step |-> "convert", engine_found |-> FALSE],
                   [step |-> "convert", engine_found |-> TRUE] }

DocxPdfTried == << "convert" >>

\* What convert_docx_to_pdf returns when step f raises.
DocxPdfReturned(f) == RetBool(f = NoFault)

\* The body of convert_docx_to_pdf when step f raises.
docx_to_pdf(f) ==
    /\ io' = << "convert docx_path output_pdf_path" >>
    /\ saved' = (f = NoFault)
    /\ printed' =
           IF f = NoFault \/ Raises(DocxPdfTried, f) THEN << >>
           ELSE IF ~f.engine_found
           THEN << "Error converting DOCX to PDF: Microsoft Word or LibreOffice not found." >>
           ELSE << "Error converting DOCX to PDF: error_message" >>
    /\ raised' = Raises(DocxPdfTried, f)
    /\ returned' = IF Raises(DocxPdfTried, f) THEN RetNone ELSE DocxPdfReturned(f)
    /\ UNCHANGED << cleaned_md_content, html_for_fitz, returned_value, doc, written,
                    side_files >>

convert_docx_to_pdf ==
    /\ pc = "call"
    /\ call.fn = "convert_docx_to_pdf"
    /\ \E f \in DocxPdfFaults : docx_to_pdf(f) /\ fault' = f
    /\ called' = << "convert_docx_to_pdf" >>
    /\ pc' = "done"
    /\ UNCHANGED << inputs, app >>

----------------------------------------------------------------------------
(* convert_md_to_docx *)

MdDocxSteps == << "open", "markdown", "Document", "save" >>

\* The steps inside convert_md_to_docx's try block.
MdDocxTried == MdDocxSteps

\* The paragraphs added for the lines of markdown.markdown(text), left uninterpreted
HtmlParagraphs(text) == [tag |-> "paragraphs", of |-> text]

\* The body of convert_md_to_docx when step f raises.
md_to_docx(f) ==
    LET ok(step) == Completes(MdDocxSteps, step, f)
    IN  /\ io' = << "open md_path r" >>
                 \o (IF ok("Document") THEN << "save output_path" >> ELSE << >>)
        /\ saved' = ok("save")
        /\ written' = IF ok("save")
                      THEN [kind |-> "docx", value |-> HtmlParagraphs(md_content)]
                      ELSE RetNone
        /\ printed' = IF f # NoFault /\ ~Raises(MdDocxTried, f)
                      THEN << "Error converting Markdown to DOCX" >> ELSE << >>
        /\ raised' = Raises(MdDocxTried, f)
        /\ returned' = IF Raises(MdDocxTried, f) THEN RetNone ELSE RetBool(f = NoFault)
        /\ UNCHANGED << cleaned_md_content, html_for_fitz, returned_value, doc, side_files >>

convert_md_to_docx ==
    /\ pc = "call"
    /\ call.fn = "convert_md_to_docx"
    /\ \E f \in FaultsOf(MdDocxSteps) : md_to_docx(f) /\ fault' = f
    /\ called' = << "convert_md_to_docx" >>
    /\ pc' = "done"
    /\ UNCHANGED << inputs, app >>

----------------------------------------------------------------------------
(* convert_file_to_md and convert_md_to_file *)

RECURSIVE LastName(_)
\* The last component of parts that is neither empty nor ".".
LastName(parts) ==
    IF parts = << >> THEN << >>
    ELSE IF parts[Len(parts)] \notin { << >>, << "." >> } THEN parts[Len(parts)]
    ELSE LastName(SubSeq(parts, 1, Len(parts) - 1))

\* Path(path).name
PathName(path) == LastName(Split(path, "/"))

\* Path(path).suffix
Suffix(path) ==
    LET name == PathName(path)
        i == RFind(name, << "." >>, 0)
    IN  IF 0 < i /\ i < Len(name) - 1 THEN Slice(name, i, Len(name)) ELSE << >>

\* Mutant: the suffix is compared as written.
ExtensionAsWritten(path) == Suffix(path)

\* file_path.suffix.lower()
Extension(path) == Lower(Suffix(path))

PDF_EXT == << ".", "p", "d", "f" >>

DOCX_EXT == << ".", "d", "o", "c", "x" >>

TXT_EXT == << ".", "t", "x", "t" >>

UNSUPPORTED_FILE_FORMAT ==
    << "U", "n", "s", "u", "p", "p", "o", "r", "t", "e", "d", " ", "f", "i", "l", "e", " ",
       "f", "o", "r", "m", "a", "t", ":", " " >>

convert_file_to_md ==
    /\ pc = "call"
    /\ call.fn = "convert_file_to_md"
    /\ LET extension == Extension(call.path)
       IN  \/ /\ extension = PDF_EXT
              /\ \E f \in PdfMdFaults(pages) : pdf_to_md(f) /\ fault' = f
              /\ called' = << "convert_file_to_md", "convert_pdf_to_md" >>
           \/ /\ extension = DOCX_EXT
              /\ \E f \in FaultsOf(DocxSteps) : docx_to_md(f) /\ fault' = f
              /\ called' = << "convert_file_to_md", "convert_docx_to_md" >>
           \/ /\ extension = TXT_EXT
              /\ \E f \in FaultsOf(TxtMdSteps) : txt_to_md(f) /\ fault' = f
              /\ called' = << "convert_file_to_md", "convert_txt_to_md" >>
           \/ /\ extension \notin { PDF_EXT, DOCX_EXT, TXT_EXT }
              /\ returned' = RetStr(UNSUPPORTED_FILE_FORMAT \o extension)
              /\ called' = << "convert_file_to_md" >>
              /\ UNCHANGED << fault, io, cleaned_md_content, html_for_fitz, returned_value,
                              printed, doc, saved, written, side_files, raised >>
    /\ pc' = "done"
    /\ UNCHANGED << inputs, app >>

convert_md_to_file ==
    /\ pc = "call"
    /\ call.fn = "convert_md_to_file"
    /\ LET extension == Extension(call.path)
       IN  \/ /\ extension = PDF_EXT
              /\ \E f \in FaultsOf(PdfSteps), rv \in InsertHtmlboxResults :
                    md_to_pdf(f, rv) /\ fault' = f
              /\ called' = << "convert_md_to_file", "convert_md_to_pdf" >>
           \/ /\ extension = DOCX_EXT
              /\ \E f \in FaultsOf(MdDocxSteps) : md_to_docx(f) /\ fault' = f
              /\ called' = << "convert_md_to_file", "convert_md_to_docx" >>
           \/ /\ extension = TXT_EXT
              /\ \E f \in FaultsOf(TxtSteps) : md_to_txt(f) /\ fault' = f
              /\ called' = << "convert_md_to_file", "convert_md_to_txt" >>
           \/ /\ extension \notin { PDF_EXT, DOCX_EXT, TXT_EXT }
              /\ printed' = << "Unsupported output format: " >> \o extension
              /\ returned' = RetBool(FALSE)
              /\ called' = << "convert_md_to_file" >>
              /\ UNCHANGED << fault, io, cleaned_md_content, html_for_fitz, returned_value,
                              doc, saved, written, side_files, raised >>
    /\ pc' = "done"
    /\ UNCHANGED << inputs, app >>

PathChunks ==
    { << "a" >>, << "." >>, << "/" >>, << "p", "d", "f" >>, << "P", "D", "F" >>,
      << "d", "o", "c", "x" >>, << "D", "o", "c", "X" >>, << "t", "x", "t" >>,
      << "T", "X", "T" >>, << "m", "d" >> }

Paths == TextsOf(PathChunks, MaxPathChunks)

Dispatchers == { "convert_file_to_md", "convert_md_to_file" }

\* The files a dispatcher is run on.
SAMPLE_MD == << "#", " ", "x", "\n" >>

SAMPLE_BODY == << Para(NORMAL, << Run(<< "x" >>, FALSE, FALSE) >>) >>

SAMPLE_PAGES == << [text |-> << "t" >>, images |-> 1] >>

\* The Markdown texts the converters of Markdown are run on directly.
ConverterMdFiles == TextsOf({ << "A" >>, << "\n" >>, << "*" >>, FENCE }, MaxChunks)

\* The DOCX bodies the converters of DOCX are run on directly.
ConverterDocxBodies == { << b >> : b \in DocxParagraphs \cup DocxTables }

\* Which file a function reads.
ReadsMd == { "convert_md_to_pdf", "convert_md_to_docx", "convert_md_to_txt" }

ReadsDocx == { "convert_docx_to_md", "convert_docx_to_pdf" }

InitConverters ==
    /\ NothingDone
    /\ \/ /\ call \in { [fn |-> d, path |-> p] : d \in Dispatchers, p \in Paths }
          /\ md_content = SAMPLE_MD
          /\ body = SAMPLE_BODY
          /\ pages = SAMPLE_PAGES
       \/ /\ call \in { [fn |-> c, path |-> << >>] : c \in ReadsMd }
          /\ md_content \in ConverterMdFiles
          /\ body = SAMPLE_BODY
          /\ pages = SAMPLE_PAGES
       \/ /\ call \in { [fn |-> c, path |-> << >>] : c \in ReadsDocx }
          /\ md_content = SAMPLE_MD
          /\ body \in ConverterDocxBodies
          /\ pages = SAMPLE_PAGES
       \/ /\ call = [fn |-> "convert_pdf_to_md", path |-> << >>]
          /\ md_content = SAMPLE_MD
          /\ body = SAMPLE_BODY
          /\ pages \in PdfFiles
       \/ /\ call = [fn |-> "convert_txt_to_md", path |-> << >>]
          /\ md_content \in TxtFiles
          /\ body = SAMPLE_BODY
          /\ pages = SAMPLE_PAGES

NextConverters ==
    \/ convert_pdf_to_md
    \/ convert_docx_to_md
    \/ convert_txt_to_md
    \/ convert_docx_to_pdf
    \/ convert_md_to_pdf
    \/ convert_md_to_docx
    \/ convert_md_to_txt
    \/ convert_file_to_md
    \/ convert_md_to_file

SpecConverters == InitConverters /\ [][NextConverters]_vars

----------------------------------------------------------------------------
(* Properties of the converters and the dispatchers *)

\* The function whose body ran last: the converter a dispatcher selected, or
\* the function called.
RanLast == called[Len(called)]

\* Whether the call returned False or a string beginning "Error converting".
ReturnedFailure ==
    \/ returned = RetBool(FALSE)
    \/ returned.kind = "str" /\ StartsWith(returned.value, ERROR_CONVERTING)

\* Whether the step that raised is the write of convert_docx_to_md's side file.
SideFileWriteFailed == fault.step = "write" /\ RanLast = "convert_docx_to_md"

\* C6 as stated: whichever step of whichever converter or dispatcher
\* raises, the call returns normally, and returns False or a string beginning
\* "Error converting".
C6_FailureReturned ==
    (pc = "done" /\ fault # NoFault) => (~raised /\ ReturnedFailure)

\* C6: whichever step of whichever converter or dispatcher raises, the call
\* returns normally; it returns False or a string beginning "Error converting",
\* except when the write of convert_docx_to_md's side file raises: then a
\* warning is printed and the stripped Markdown is returned.
C6_FailureContained ==
    (pc = "done" /\ fault # NoFault) =>
        /\ ~raised
        /\ IF SideFileWriteFailed
           THEN /\ returned = RetStr(Strip(final_md(body)))
                /\ printed = << "Warning: Could not save file" >>
           ELSE ReturnedFailure

\* convert_file_to_md ran convert_pdf_to_md, whose fitz.open raised, and
\* returned the error string.
C6_Witness ==
    /\ pc = "done"
    /\ called = << "convert_file_to_md", "convert_pdf_to_md" >>
    /\ fault.step = "fitz.open"
    /\ ~raised
    /\ returned = RetStr(PDF_ERROR \o STR_E)

\* The converter each dispatcher runs for an extension.
ConverterFor(fn, ext) ==
    IF fn = "convert_file_to_md"
    THEN (IF ext = PDF_EXT THEN "convert_pdf_to_md"
          ELSE IF ext = DOCX_EXT THEN "convert_docx_to_md" ELSE "convert_txt_to_md")
    ELSE (IF ext = PDF_EXT THEN "convert_md_to_pdf"
          ELSE IF ext = DOCX_EXT THEN "convert_md_to_docx" ELSE "convert_md_to_txt")

\* Whether nothing was opened, written or saved.
NoFileIO ==
    /\ io = << >>
    /\ doc = "none"
    /\ ~saved
    /\ written = RetNone
    /\ side_files = << >>

\* C7: a dispatcher runs the PDF, DOCX or TXT converter when the path's
\* suffix is .pdf, .docx or .txt in any letter case; for every other suffix it
\* runs no converter, does no file I/O, and returns "Unsupported file format: "
\* followed by the lowercased suffix (convert_file_to_md) or False
\* (convert_md_to_file).
C7_Dispatch ==
    (pc = "done" /\ call.fn \in Dispatchers) =>
        LET ext == Lower(Suffix(call.path))
        IN  IF ext \in { PDF_EXT, DOCX_EXT, TXT_EXT }
            THEN called = << call.fn, ConverterFor(call.fn, ext) >>
            ELSE /\ called = << call.fn >>
                 /\ NoFileIO
                 /\ ~raised
                 /\ returned = IF call.fn = "convert_file_to_md"
                               THEN RetStr(UNSUPPORTED_FILE_FORMAT \o ext)
                               ELSE RetBool(FALSE)

\* convert_md_to_file ran convert_md_to_pdf for a path ending in ".PDF".
C7_Witness ==
    /\ pc = "done"
    /\ EndsWith(call.path, << ".", "P", "D", "F" >>)
    /\ called = << "convert_md_to_file", "convert_md_to_pdf" >>

----------------------------------------------------------------------------
(* Properties of convert_docx_to_pdf *)

MISSING_ENGINE == [step |-> "convert", engine_found |-> FALSE]

\* C11: when the engine is missing, what convert_docx_to_pdf returns differs
\* from what it returns for every other conversion error.
C11_MissingEngineDistinct ==
    (pc = "done" /\ RanLast = "convert_docx_to_pdf" /\ fault = MISSING_ENGINE) =>
        \A g \in DocxPdfFaults \ { NoFault, MISSING_ENGINE } : returned # DocxPdfReturned(g)

----------------------------------------------------------------------------
(* Properties of convert_pdf_to_md *)

\* image_p{p}_{i}.png
SideFileName(p, i) ==
    << "i", "m", "a", "g", "e", "_", "p" >> \o << DigitOf(p) >> \o << "_" >>
        \o << DigitOf(i) >> \o << ".", "p", "n", "g" >>

\* The reference to image i of page p, naming the file name.
ReferenceTo(p, i, name) ==
    << "!", "[", "I", "m", "a", "g", "e", " " >> \o << DigitOf(i) >>
        \o << " ", "f", "r", "o", "m", " ", "p", "a", "g", "e", " " >> \o << DigitOf(p) >>
        \o << "]", "(" >> \o name \o << ")", "\n", "\n" >>

\* The heading "## Page p", the page's text, a blank separator, then the
\* references to the page's images in order.
PageInOrder(p, page) ==
    << "#", "#", " ", "P", "a", "g", "e", " " >> \o << DigitOf(p) >> \o << "\n" >>
        \o page.text \o << "\n", "\n" >>
        \o Concat([i \in 1..page.images |-> ReferenceTo(p, i, SideFileName(p, i))])

\* C12: convert_pdf_to_md returns, for page p = 1..P in order, the heading
\* "## Page p", the page's text, a blank separator and one reference per image
\* i = 1..n_p in order naming image_p{p}_{i}.png; whichever step raises, every
\* reference appended so far names a side file already written; and no two
\* side files of the conversion share a name.
C12_PagesInOrder ==
    (pc = "done" /\ RanLast = "convert_pdf_to_md") =>
        LET md == md_content_list(pages, fault)
        IN  /\ fault = NoFault =>
                   /\ returned = RetStr(Concat([p \in 1..Len(pages) |->
                                                  PageInOrder(p, pages[p])]))
                   /\ returned = RetStr(Concat(md))
            /\ \A p \in 1..Len(pages) : \A i \in 1..pages[p].images :
                   (\E k \in 1..Len(md) : md[k] = ReferenceTo(p, i, SideFileName(p, i)))
                       => \E j \in 1..Len(side_files) : side_files[j] = SideFileName(p, i)
            /\ \A j, k \in 1..Len(side_files) :
                   side_files[j] = side_files[k] => j = k

\* convert_pdf_to_md returned the Markdown of two pages holding images.
C12_Witness ==
    /\ pc = "done"
    /\ RanLast = "convert_pdf_to_md"
    /\ fault = NoFault
    /\ Len(pages) = 2
    /\ pages[1].images = 2
    /\ pages[2].images = 1
    /\ Len(side_files) = 3
    /\ returned.kind = "str"

----------------------------------------------------------------------------
(* app.py: add_message_to_history and the steps of run_chat_interface *)

\* Whether Python takes the value as true.
Truthy(v) == v # NoValue /\ v # Text(<< >>)

\* The state a run of the script works on: the session, the temporary files,
\* what each chat did, the contents sent to the model, and whether st.rerun()
\* has ended the run.
RunState(ss, files) ==
    [ss |-> ss, files |-> files, ran |-> [t \in DocTypes |-> NothingRan],
     sent |-> << >>, rerun |-> FALSE]

add_message_to_history(ss, role, content, doc_type, image_bytes, image_caption) ==
    LET message_data ==
            IF Truthy(image_bytes) /\ Truthy(image_caption)
            THEN [role |-> role, content |-> content, image_bytes |-> image_bytes,
                  image_caption |-> image_caption]
            ELSE [role |-> role, content |-> content]
    IN  [ss EXCEPT ![MessagesKey(doc_type)] = Append(@, message_data)]

IMAGE_TYPE_PREFIX == << "i", "m", "a", "g", "e", "/" >>

\* f"Uploaded `{uploaded_file.name}`. How should I process this for a {doc_type_name}? ..."
user_msg_text(name, doc_type_name) ==
    [kind |-> "Uploaded", name |-> name, doc_type_name |-> doc_type_name]

\* f"Uploaded: {uploaded_file.name}"
UploadedCaption(name) == [kind |-> "Uploaded: ", name |-> name]

\* Lines 84-95: a selected file whose name is not the last one registered
\* becomes the pending upload, is announced in the history, and the run ends
\* with st.rerun().
UploadStep(S, t, file) ==
    IF S.rerun \/ file = NoValue THEN S
    ELSE IF S.ss[LastUploadedFilenameKey(t)] = Text(file.name) THEN S
    ELSE LET registered ==
                 [S.ss EXCEPT ![UploadedFileInfoKey(t)] = file,
                              ![LastUploadedFilenameKey(t)] = Text(file.name)]
             announced ==
                 IF StartsWith(file.type, IMAGE_TYPE_PREFIX)
                 THEN add_message_to_history(registered, "user",
                          user_msg_text(file.name, t), t, Text(file.data),
                          UploadedCaption(file.name))
                 ELSE add_message_to_history(registered, "user",
                          user_msg_text(file.name, t), t, NoValue, NoValue)
         IN  [S EXCEPT !.ss = announced, !.ran[t].registered = TRUE, !.rerun = TRUE]

\* What the download step sees of convert_md_to_pdf when step f raises:
\* the value returned, whether an exception left the call, and whether the
\* file at output_path exists (a save that raises may leave part of it).
ConversionOutcome(f, rv, partial) ==
    [returned |-> IF f = NoFault THEN PdfSuccess(rv)
                  ELSE IF Raises(PdfTried, f) THEN RetNone ELSE PdfFailure,
     raised |-> Raises(PdfTried, f),
     pdf_exists |-> Completes(PdfSteps, "save", f) \/ (f.step = "save" /\ partial)]

ConversionOutcomes ==
    { ConversionOutcome(f, rv, partial) :
          f \in FaultsOf(PdfSteps), rv \in InsertHtmlboxResults, partial \in BOOLEAN }

\* The temporary file of chat t whose name ends in suffix.
TmpFile(t, suffix) == [of |-> t, suffix |-> suffix]

\* The files the branch that offers no download removes.
RemovedWithoutDownload(tmp_md_path, tmp_pdf_path) == { tmp_md_path }

\* Lines 98-129: with a current document, write it to a temporary .md file,
\* convert it to the temporary .pdf file, offer the PDF when the conversion
\* succeeded and the file exists, and remove temporary files.
DownloadStep(S, t, conv) ==
    IF S.rerun \/ ~Truthy(S.ss[CurrentMdKey(t)]) THEN S
    ELSE LET tmp_md_path == TmpFile(t, ".md")
             tmp_pdf_path == TmpFile(t, ".pdf")
             created == { tmp_md_path } \cup (IF conv.pdf_exists THEN { tmp_pdf_path } ELSE { })
             pdf_conversion_success == ~conv.raised /\ conv.returned = RetBool(TRUE)
             offered == pdf_conversion_success /\ tmp_pdf_path \in created
             removed == IF offered THEN { tmp_md_path, tmp_pdf_path }
                        ELSE RemovedWithoutDownload(tmp_md_path, tmp_pdf_path)
         IN  [S EXCEPT !.files = @ \cup (created \ removed),
                       !.ran[t].download =
                           IF offered THEN "offered"
                           ELSE IF conv.pdf_exists THEN "not offered, pdf exists"
                           ELSE "not offered, no pdf"]

\* The prompt built from an extraction template of the session.
ExtractionPrompt(doc_type_name) ==
    [kind |-> "extraction",
     template |-> IF doc_type_name = "Quotation" THEN "quotation_extraction_prompt_template"
                  ELSE "bill_extraction_prompt_template",
     doc_type_name |-> doc_type_name]

\* f"Here is the current {doc_type_name} document (in Markdown): ... {user_chat_input}"
ModificationPrompt(doc_type_name, current_doc_md, user_chat_input) ==
    [kind |-> "modification", doc_type_name |-> doc_type_name,
     document |-> current_doc_md, request |-> user_chat_input]

\* not final_prompt_for_api.strip(): only the raw input can be blank.
IsBlank(prompt) == prompt.kind = "str" /\ Strip(prompt.value) = << >>

MISSING_DATA_ERROR == [kind |-> "Error: Uploaded file data is missing or corrupt."]

EMPTY_REQUEST == [kind |-> "It seems your request is empty. Please provide some instructions."]

\* f"Error with Gemini API: {e}"
GEMINI_ERROR == [kind |-> "Error with Gemini API: ", e |-> STR_E]

\* types.Content(role=role, parts=parts)
Content(role, parts) == [role |-> role, parts |-> parts]

\* types.Part(inline_data=types.Blob(data=raw_data, mime_type=mime_type_for_api))
Blob(data, mime_type) == [kind |-> "inline_data", data |-> data, mime_type |-> mime_type]

SYSTEM_PROMPT == [kind |-> "system_prompt"]

\* Lines 180-205: the system prompt, the history without its last message,
\* then the prompt of this turn (after the uploaded file, when one is sent).
ContentsFor(history_messages, final_prompt_for_api, image_part) ==
    << Content("user", << SYSTEM_PROMPT >>) >>
        \o [k \in 1..(Len(history_messages) - 1) |->
               Content(IF history_messages[k].role = "assistant" THEN "model"
                       ELSE history_messages[k].role,
                       << history_messages[k].content >>)]
        \o << Content("user", IF image_part = NoValue THEN << final_prompt_for_api >>
                              ELSE << image_part, final_prompt_for_api >>) >>

\* Lines 131-226: a chat input is added to the history; a pending upload is
\* sent with the extraction prompt and cleared, else the current document is
\* sent with the request, else the input alone; the response becomes the
\* current document; the run ends with st.rerun().
ChatStep(S, t, user_chat_input, api) ==
    IF S.rerun \/ ~Truthy(user_chat_input) THEN S
    ELSE LET ss1 == add_message_to_history(S.ss, "user", user_chat_input, t, NoValue, NoValue)
             uploaded_info == ss1[UploadedFileInfoKey(t)]
             current_doc_md == ss1[CurrentMdKey(t)]
             pending == Truthy(uploaded_info)
             has_data == pending /\ uploaded_info.data # << >> /\ uploaded_info.type # << >>
             image_part == IF has_data THEN Blob(uploaded_info.data, uploaded_info.type)
                           ELSE NoValue
             final_prompt_for_api ==
                 IF pending
                 THEN (IF has_data THEN ExtractionPrompt(t) ELSE user_chat_input)
                 ELSE IF Truthy(current_doc_md)
                 THEN ModificationPrompt(t, current_doc_md, user_chat_input)
                 ELSE user_chat_input
             ss2 == IF ~pending THEN ss1
                    ELSE [(IF has_data THEN ss1
                           ELSE add_message_to_history(ss1, "assistant", MISSING_DATA_ERROR,
                                                       t, NoValue, NoValue))
                             EXCEPT ![UploadedFileInfoKey(t)] = NoValue,
                                    ![LastUploadedFilenameKey(t)] = NoValue]
             ss3 == IF IsBlank(final_prompt_for_api)
                    THEN add_message_to_history(ss2, "assistant", EMPTY_REQUEST, t,
                                                NoValue, NoValue)
                    ELSE ss2
             api_call_needed == (pending => has_data) /\ ~IsBlank(final_prompt_for_api)
             contents == ContentsFor(ss3[MessagesKey(t)], final_prompt_for_api, image_part)
             ss4 == IF ~api_call_needed THEN ss3
                    ELSE IF api.ok
                    THEN [add_message_to_history(ss3, "assistant", Text(api.text), t,
                                                 NoValue, NoValue)
                             EXCEPT ![CurrentMdKey(t)] = Text(api.text)]
                    ELSE add_message_to_history(ss3, "assistant", GEMINI_ERROR, t,
                                                NoValue, NoValue)
         IN  [S EXCEPT !.ss = ss4,
                       !.sent = IF api_call_needed THEN contents ELSE @,
                       !.ran[t].chat =
                           IF ~api_call_needed THEN "no call"
                           ELSE IF ~api.ok THEN "call raised"
                           ELSE IF pending THEN "extraction"
                           ELSE IF Truthy(current_doc_md) THEN "modification"
                           ELSE "generation",
                       !.rerun = TRUE]

\* run_chat_interface(doc_type_name): the three steps in order; a step after
\* st.rerun() does not run.
run_chat_interface(S, t, file, user_chat_input, conv, api) ==
    ChatStep(DownloadStep(UploadStep(S, t, file), t, conv), t, user_chat_input, api)

\* main(): the Quotation chat, then the Bill chat.
main(S, files, chat_input, conv, api) ==
    run_chat_interface(
        run_chat_interface(S, doc_type_names[1], files[doc_type_names[1]],
                           chat_input[doc_type_names[1]], conv[doc_type_names[1]], api),
        doc_type_names[2], files[doc_type_names[2]], chat_input[doc_type_names[2]],
        conv[doc_type_names[2]], api)

\* A response of the model with its text, or an exception.
ApiOutcomes ==
    { [ok |-> TRUE, text |-> << "d", "1" >>], [ok |-> TRUE, text |-> << "d", "2" >>],
      [ok |-> FALSE, text |-> << >>] }

\* What stands for the conversion of a chat whose download step does not run.
NoConversion == ConversionOutcome(NoFault, "rect_empty", FALSE)

\* What stands for the response in a run without chat input.
NoApiCall == [ok |-> FALSE, text |-> << >>]

NoChatInput == [t \in DocTypes |-> NoValue]

\* One run of the script with the widgets' values: the uploader of every
\* chat and the chat input submitted, if any.
ScriptRun(files, chat_input) ==
    \E conv \in { c \in [DocTypes -> ConversionOutcomes] :
                      \A t \in DocTypes : Truthy(session_state[CurrentMdKey(t)])
                                              \/ c[t] = NoConversion },
       api \in { a \in ApiOutcomes : chat_input # NoChatInput \/ a = NoApiCall } :
        LET S == main(RunState(session_state, tmp_files), files, chat_input, conv, api)
        IN  /\ session_state' = S.ss
            /\ tmp_files' = S.files
            /\ ran' = S.ran
            /\ gemini_api_contents' = S.sent
            /\ script' = IF S.rerun THEN "rerun" ELSE "idle"
            /\ uploaded_file' = files

\* The messages of all chats.
HistorySize == Len(session_state[MessagesKey("Quotation")]) + Len(session_state[MessagesKey("Bill")])

IMAGE_PNG == << "i", "m", "a", "g", "e", "/", "p", "n", "g" >>

APPLICATION_PDF == << "a", "p", "p", "l", "i", "c", "a", "t", "i", "o", "n", "/", "p", "d", "f" >>

\* The files a user selects: an image, and a PDF that is empty.
Uploads ==
    { [name |-> << "a" >>, type |-> IMAGE_PNG, data |-> << "1" >>],
      [name |-> << "b" >>, type |-> APPLICATION_PDF, data |-> << >>] }

\* What a user types: a request, or blanks.
ChatInputs == { Text(<< "x" >>), Text(<< " " >>) }

\* The user selects a file in a chat's uploader (or removes it): the script runs.
SelectFile ==
    /\ script = "idle"
    /\ HistorySize < MaxMessages
    /\ \E t \in DocTypes, file \in Uploads \cup { NoValue } :
          /\ uploaded_file[t] # file
          /\ ScriptRun([uploaded_file EXCEPT ![t] = file], NoChatInput)
    /\ UNCHANGED << pc, fault, called, inputs, outputs >>

\* The user submits a chat input in a chat: the script runs.
SubmitChat ==
    /\ script = "idle"
    /\ HistorySize < MaxMessages
    /\ \E t \in DocTypes, user_chat_input \in ChatInputs :
          ScriptRun(uploaded_file, [NoChatInput EXCEPT ![t] = user_chat_input])
    /\ UNCHANGED << pc, fault, called, inputs, outputs >>

\* st.rerun(): the script runs again with the widgets as they are.
Rerun ==
    /\ script = "rerun"
    /\ ScriptRun(uploaded_file, NoChatInput)
    /\ UNCHANGED << pc, fault, called, inputs, outputs >>

\* The user clicks the download button a chat's last run displayed (lines
\* 117-123): the script runs again with the widgets as they are.
ClickDownload ==
    /\ script = "idle"
    /\ \E t \in DocTypes : ran[t].download = "offered"
    /\ ScriptRun(uploaded_file, NoChatInput)
    /\ UNCHANGED << pc, fault, called, inputs, outputs >>

InitApp ==
    /\ NothingDone
    /\ call = [fn |-> "main", path |-> << >>]
    /\ md_content = << >>
    /\ body = << >>
    /\ pages = << >>

NextApp == SelectFile \/ SubmitChat \/ Rerun \/ ClickDownload

SpecApp == InitApp /\ [][NextApp]_vars

----------------------------------------------------------------------------
(* Properties of run_chat_interface *)

\* C13: once the download step of a chat with a current document has
\* finished, neither the temporary .md file nor the temporary .pdf file
\* exists, whatever convert_md_to_pdf returned and whether or not it
\* produced the PDF.
C13_TemporaryFilesRemoved ==
    \A t \in DocTypes :
        ran[t].download # "none" =>
            /\ TmpFile(t, ".md") \notin tmp_files
            /\ TmpFile(t, ".pdf") \notin tmp_files

----------------------------------------------------------------------------
(* Properties of convert_docx_to_md's side file *)

\* C14: convert_docx_to_md writes the converted Markdown to the output
\* path, and when that write raises it still returns the Markdown it returns
\* when the write succeeds, not an error string.
C14_SideFileIndependent ==
    (pc = "done" /\ RanLast = "convert_docx_to_md") =>
        LET markdown == RetStr(Strip(final_md(body)))
        IN  /\ fault = NoFault =>
                   /\ written = RetStr(final_md(body))
                   /\ returned = markdown
            /\ fault.step = "write" =>
                   /\ ~raised
                   /\ written = RetNone
                   /\ returned = markdown
                   /\ returned # RetStr(DOCX_ERROR \o STR_E)

\* The write of the side file raised and the Markdown of a document of two
\* blocks was returned.
C14_Witness ==
    /\ pc = "done"
    /\ RanLast = "convert_docx_to_md"
    /\ fault.step = "write"
    /\ Len(body) = 2
    /\ returned = RetStr(Strip(final_md(body)))
    /\ returned.value # << >>

----------------------------------------------------------------------------
(* Properties of convert_md_to_pdf's page *)

\* C15: a call of convert_md_to_pdf that returns True has saved a PDF of
\* exactly one page of 595x842 units whose content was laid out in the
\* rectangle with 50-unit margins on all four sides (495x742), whatever the
\* Markdown; and the HTML laid out is always one letterhead spacer <div>
\* followed by the rendered content.
C15_SinglePage ==
    (pc = "done" /\ RanLast = "convert_md_to_pdf") =>
        /\ returned = RetBool(TRUE) =>
               /\ saved
               /\ doc_pages(fault) = << [width |-> 595, height |-> 842] >>
               /\ returned_value # "none"
               /\ rect.x0 = 50 /\ rect.y0 = 50
               /\ 595 - rect.x1 = 50 /\ 842 - rect.y1 = 50
               /\ rect.x1 - rect.x0 = 495 /\ rect.y1 - rect.y0 = 742
        /\ html_for_fitz # << >> =>
               /\ Len(html_for_fitz) = 2
               /\ html_for_fitz[1] = [tag |-> "div", style |-> "height: 3cm;"]
               /\ html_for_fitz[2] = [tag |-> "markdown", of |-> cleaned_md_content.value]

\* convert_md_to_pdf returned True for a Markdown of four chunks whose
\* content overflowed the rectangle.
C15_Witness ==
    /\ pc = "done"
    /\ RanLast = "convert_md_to_pdf"
    /\ returned = RetBool(TRUE)
    /\ returned_value = "rect_not_empty"
    /\ Len(md_content) >= 4
    /\ saved
    /\ doc = "closed"

----------------------------------------------------------------------------
(* Properties of convert_docx_to_md's headings *)

\* The heading level the classification gives a style name (0: a body paragraph).
ClaimedHeadingLevel(name) ==
    IF name = << "T", "i", "t", "l", "e" >> THEN 1
    ELSE IF name = << "S", "u", "b", "t", "i", "t", "l", "e" >> THEN 2
    ELSE IF StartsWith(name, HEADING)
    THEN (IF IsDigit(name[Len(name)]) THEN DigitValue(name[Len(name)]) ELSE 1)
    ELSE 0

\* C16: a non-blank paragraph whose style is "Heading" followed by a digit d
\* is converted to a heading of level d, one of style "Title" to a heading of
\* level 1, one of style "Subtitle" to a heading of level 2, one of another
\* style starting with "Heading" to a heading of level 1, and one of any other
\* style to a body paragraph.
C16_HeadingClassification ==
    (pc = "done" /\ RanLast = "convert_docx_to_md" /\ fault = NoFault
        /\ Len(body) = 1 /\ body[1].type = "p"
        /\ Strip(ParaText(body[1])) # << >>) =>
        LET level == ClaimedHeadingLevel(body[1].style)
        IN  IF level > 0
            THEN StartsWith(returned.value,
                            Repeat(<< "#" >>, level) \o << " " >> \o Strip(ParaText(body[1])))
            ELSE ~StartsWith(returned.value, << "#" >>)

----------------------------------------------------------------------------
(* Properties of convert_docx_to_md's line breaks *)

RECURSIVE RunsCollapsedTo(_, _, _)
\* s from position i on, with every run of three or more LINE_BREAK_MARKERs
\* replaced by two.
RunsCollapsedTo(s, i, two) ==
    IF i >= Len(s) THEN << >>
    ELSE LET n == MarkersAt(s, i)
         IN  IF n >= 3
             THEN two \o RunsCollapsedTo(s, i + n * Len(LINE_BREAK_MARKER), two)
             ELSE << s[i + 1] >> \o RunsCollapsedTo(s, i + 1, two)

\* C17: the final Markdown of every document holds no run of three or more
\* line-break markers, and every run of three or more markers produced by the
\* traversal appears in it as exactly two markers of the kind that separates
\* the other blocks.
C17_LineBreaksCollapsed ==
    (pc = "done" /\ RanLast = "convert_docx_to_md" /\ fault = NoFault) =>
        /\ \A i \in 0..Len(written.value) : MarkersAt(written.value, i) < 3
        /\ written.value =
               RunsCollapsedTo(JoinedMd(body), 0, LINE_BREAK_MARKER \o LINE_BREAK_MARKER)

----------------------------------------------------------------------------
(* Properties of the converters' handles *)

\* C18: when a converter returns, on success or after any step raised, the
\* fitz document it opened or created is closed.
C18_DocumentClosed ==
    pc = "done" => doc # "open"

----------------------------------------------------------------------------
(* Properties of the fence-stripping step: nothing is invented *)

\* Whether t is s[i:j] for some positions from..to of s.
IsSliceWithin(t, s, from, to) ==
    \E i \in from..to : \E j \in i..to : t = Slice(s, i, j)

\* C19: the cleaned text is a contiguous part of the input; and when a
\* block is extracted, the closing fence starts at or after the end of the
\* opening marker and the block lies between them, holding no character of
\* either.
C19_NothingInvented ==
    Normalized =>
        /\ IsSliceWithin(cleaned_md_content.value, md_content, 0, Len(md_content))
        /\ LET e == FirstOccurrenceOpening(md_content)
           IN  (e # -1 /\ FenceAtOrAfter(md_content, e)) =>
                   LET closing == Max(Occurrences(md_content, FENCE))
                   IN  /\ e <= closing
                       /\ IsSliceWithin(cleaned_md_content.value, md_content, e, closing)

\* A block shorter than the text between its markers is cut out of a text
\* that opens with the tagged marker.
C19_Witness ==
    LET e == FirstOccurrenceOpening(md_content)
    IN  /\ Normalized
        /\ StartsWith(md_content, MARKDOWN_FENCE)
        /\ FenceAtOrAfter(md_content, e)
        /\ cleaned_md_content.value # << >>
        /\ Len(cleaned_md_content.value)
               < Max(Occurrences(md_content, FENCE)) - Len(MARKDOWN_FENCE)

----------------------------------------------------------------------------
(* Properties of run_chat_interface's uploader *)

\* Whether the history of chat t holds the "Uploaded ..." message of the
\* file selected in its uploader.
Announced(t) ==
    /\ uploaded_file[t] # NoValue
    /\ \E k \in 1..Len(session_state[MessagesKey(t)]) :
           session_state[MessagesKey(t)][k].content
               = user_msg_text(uploaded_file[t].name, t)

\* C20: while the same file stays selected in a chat's uploader, no run of
\* the script registers it as a pending upload a second time: once its
\* "Uploaded ..." message is in the history, reruns and chat turns leave the
\* pending upload cleared.
C20_RegisteredOnce ==
    [][\A t \in DocTypes :
           (uploaded_file'[t] = uploaded_file[t] /\ Announced(t))
               => ~ran'[t].registered]_vars

----------------------------------------------------------------------------
(* Properties of run_chat_interface's chat turn *)

\* The messages that carry an error.
ErrorMessages == { MISSING_DATA_ERROR, EMPTY_REQUEST, GEMINI_ERROR }

\* What chat t's turn did when the model gave no response.
FailedTurns == { "no call", "call raised" }

\* C21: a chat input appends exactly one user message followed by exactly
\* one assistant message to its chat's history; when it leads to no model call
\* or the call raises, that assistant message carries the error and the current
\* document is unchanged; and the current document changes only to the text of
\* a successful response.
C21_FailedTurnKeepsDocument ==
    [][\A t \in DocTypes :
           LET history == session_state[MessagesKey(t)]
               after == session_state'[MessagesKey(t)]
               n == Len(history)
               document == session_state[CurrentMdKey(t)]
               replaced == session_state'[CurrentMdKey(t)]
           IN  IF ran'[t].chat = "none" THEN replaced = document
               ELSE /\ Len(after) = n + 2
                    /\ SubSeq(after, 1, n) = history
                    /\ after[n + 1].role = "user"
                    /\ after[n + 2].role = "assistant"
                    /\ ran'[t].chat \in FailedTurns =>
                           /\ replaced = document
                           /\ after[n + 2].content \in ErrorMessages
                    /\ ran'[t].chat \notin FailedTurns =>
                           /\ replaced = after[n + 2].content
                           /\ replaced \notin ErrorMessages]_vars

----------------------------------------------------------------------------
(* Isolation of the document types *)

\* What the session holds for one chat: its history, its current document and
\* its pending-upload state.
ChatState(ss, t) ==
    << ss[MessagesKey(t)], ss[CurrentMdKey(t)], ss[UploadedFileInfoKey(t)],
       ss[LastUploadedFilenameKey(t)] >>

\* The step is a run of the script caused by what the user did in chat t: a
\* file selected in its uploader, a chat input submitted in it, a click on its
\* download button, or the rerun that chat t's last run asked for.
ActingIn(t) ==
    \/ uploaded_file'[t] # uploaded_file[t]
    \/ ran'[t].chat # "none"
    \/ /\ script = "idle"
       /\ uploaded_file' = uploaded_file
       /\ \A u \in DocTypes : ran'[u].chat = "none"
       /\ ran[t].download = "offered"
    \/ script = "rerun" /\ (ran[t].registered \/ ran[t].chat # "none")

\* The role a message of the history is sent under (line 196).
api_role(msg_data) == IF msg_data.role = "assistant" THEN "model" ELSE msg_data.role

\* The run called the model for chat t.
ModelCalledFor(t) == ran'[t].chat \notin { "none", "no call" }

\* C22: a run of the script caused by an upload, a chat input or a download in
\* one chat leaves the other chat's history, current document and
\* pending-upload state unchanged; and what is sent to the model for a chat is,
\* after the system prompt, that chat's earlier messages one by one in their
\* order, followed by the current input's prompt as the last part of the last
\* content, and nothing else.
C22_DocumentTypesIsolated ==
    [][\A t \in DocTypes :
           /\ ActingIn(t) =>
                  \A u \in DocTypes \ { t } :
                      ChatState(session_state', u) = ChatState(session_state, u)
           /\ ModelCalledFor(t) =>
                  LET earlier == session_state[MessagesKey(t)]
                      n == Len(earlier)
                      input == session_state'[MessagesKey(t)][n + 1].content
                      sent == gemini_api_contents'
                      last == sent[Len(sent)]
                  IN  /\ Len(sent) = n + 2
                      /\ sent[1] = [role |-> "user", parts |-> << SYSTEM_PROMPT >>]
                      /\ \A k \in 1..n :
                             sent[k + 1] = [role |-> api_role(earlier[k]),
                                            parts |-> << earlier[k].content >>]
                      /\ last.role = "user"
                      /\ last.parts[Len(last.parts)] \in
                             { input, ExtractionPrompt(t),
                               ModificationPrompt(t, session_state[CurrentMdKey(t)], input) }]_vars

\* The model was called for the Bill chat with two earlier messages of that
\* chat while the Quotation chat holds a message of its own.
C22_Witness ==
    /\ ran["Bill"].chat = "modification"
    /\ Len(gemini_api_contents) = 4
    /\ Len(session_state[MessagesKey("Quotation")]) > 0
    /\ session_state[MessagesKey("Quotation")][1] # session_state[MessagesKey("Bill")][1]

====
